---- MODULE Spec2Model ----
(***************************************************************************)
(* The BMW listings dashboard of app.py: load_data (read the CSV file,     *)
(* normalise it, drop the rows without price or year) and main (one        *)
(* rendering pass: widgets, filters, metrics, per-model counts, CSV        *)
(* export).                                                                *)
(*                                                                         *)
(* Text is a sequence of one-character strings, so that str.strip, the     *)
(* parsing of numerals and the formatting of numbers are computed, not     *)
(* assumed.  A number is stored in half units (2*x, an integer), which     *)
(* represents every x with at most the fractional part .5 exactly; Python  *)
(* integers (slider values, the displayed means) are stored as they are.   *)
(***************************************************************************)
EXTENDS Integers, Sequences, FiniteSets, TLC

VARIABLES source,      \* the file bmw.csv: [header, rows] of raw field texts
          cache,       \* st.cache_data's entry for load_data()
          started,     \* the sidebar widgets exist (a pass got past line 42)
          sel,         \* the widgets' values: the selection
          df_filtered, \* the view of the last pass
          shown,       \* the metrics and the per-model counts of the last pass
          csv,         \* the bytes handed to the download button
          reloaded,    \* load_data applied to the downloaded file
          err          \* the exception that ended the last pass, if any

vars == <<source, cache, started, sel, df_filtered, shown, csv, reloaded, err>>

\* ------------------------------------------------------------------ bounds

MaxRows == 2

\* -------------------------------------------------------------------- text

IsSpace(c) == c \in {" ", "\t", "\n", "\r"}

RECURSIVE lstrip(_)
lstrip(s) == IF s # <<>> /\ IsSpace(Head(s)) THEN lstrip(Tail(s)) ELSE s

RECURSIVE rstrip(_)
rstrip(s) ==
    IF s # <<>> /\ IsSpace(s[Len(s)]) THEN rstrip(SubSeq(s, 1, Len(s) - 1)) ELSE s

\* str.strip()
strip(s) == rstrip(lstrip(s))

Digits == <<"0", "1", "2", "3", "4", "5", "6", "7", "8", "9">>

IsDigit(c) == \E d \in 1..10 : Digits[d] = c

DigitVal(c) == (CHOOSE d \in 1..10 : Digits[d] = c) - 1

AllDigits(s) == s # <<>> /\ \A i \in 1..Len(s) : IsDigit(s[i])

RECURSIVE NatOf(_)
NatOf(s) ==
    IF s = <<>> THEN 0
    ELSE 10 * NatOf(SubSeq(s, 1, Len(s) - 1)) + DigitVal(s[Len(s)])

RECURSIVE NatStr(_)
NatStr(k) ==
    IF k < 10 THEN <<Digits[k + 1]>>
    ELSE NatStr(k \div 10) \o <<Digits[(k % 10) + 1]>>

\* ------------------------------------------------------------------- cells

NaN == [t |-> "nan", s |-> <<>>, n |-> 0]

Str(s) == [t |-> "str", s |-> s, n |-> 0]

\* n is the number in half units
Num(n) == [t |-> "num", s |-> <<>>, n |-> n]

c_model == <<"m", "o", "d", "e", "l">>
c_year == <<"y", "e", "a", "r">>
c_price == <<"p", "r", "i", "c", "e">>
c_mileage == <<"m", "i", "l", "e", "a", "g", "e">>
c_tax == <<"t", "a", "x">>
c_mpg == <<"m", "p", "g">>
c_engineSize == <<"e", "n", "g", "i", "n", "e", "S", "i", "z", "e">>
c_transmission == <<"t", "r", "a", "n", "s", "m", "i", "s", "s", "i", "o", "n">>
c_fuelType == <<"f", "u", "e", "l", "T", "y", "p", "e">>

\* ------------------------------------------------------------- data frames
\* A data frame: its column names, each column's dtype, its index labels in
\* row order, and each label's cells (one per column).

HasCol(df, name) == \E j \in 1..Len(df.columns) : df.columns[j] = name

ColPos(df, name) == CHOOSE j \in 1..Len(df.columns) : df.columns[j] = name

Cell(df, lab, name) == df.data[lab][ColPos(df, name)]

Labels(df) == {df.index[k] : k \in 1..Len(df.index)}

\* df[mask]: the rows with the labels idx, in that order
Take(df, idx) ==
    [df EXCEPT !.index = idx,
               !.data = [lab \in {idx[k] : k \in 1..Len(idx)} |-> df.data[lab]]]

\* the rows as a sequence of cell sequences, in row order
Rows(df) == [k \in 1..Len(df.index) |-> df.data[df.index[k]]]

\* ---------------------------------------------------------------- load_data

\* pandas.read_csv's default na_values
na_values ==
    { <<>>, <<"N", "A">>, <<"N", "/", "A">>, <<"n", "/", "a">>,
      <<"N", "a", "N">>, <<"n", "a", "n">>, <<"-", "N", "a", "N">>,
      <<"-", "n", "a", "n">>, <<"n", "u", "l", "l">>, <<"N", "U", "L", "L">>,
      <<"N", "o", "n", "e">>, <<"<", "N", "A", ">">>, <<"#", "N", "A">>,
      <<"#", "N", "/", "A">> }

\* one field as read_csv reads it: a missing-value token is NaN, anything
\* else is the text as it stands (read_csv strips nothing)
read_field(raw) == IF raw \in na_values THEN NaN ELSE Str(raw)

\* pd.read_csv(path): labels 0..n-1, every column of dtype object until
\* to_numeric decides it (read_csv's own inference of an all-numeric column
\* gives the values to_numeric gives)
read_csv(file) ==
    [columns |-> file.header,
     dtypes  |-> [j \in 1..Len(file.header) |-> "object"],
     index   |-> [k \in 1..Len(file.rows) |-> k - 1],
     data    |-> [lab \in 0..(Len(file.rows) - 1) |->
                     [j \in 1..Len(file.header) |->
                         read_field(file.rows[lab + 1][j])]]]

\* the numeral grammar of the model: [-]digits[.0|.5] (the numbers half
\* units hold); every other text is not a number, as for to_numeric
IsNumeral(s) ==
    LET b == IF s # <<>> /\ Head(s) = "-" THEN Tail(s) ELSE s
    IN  \/ AllDigits(b)
        \/ /\ Len(b) >= 3
           /\ AllDigits(SubSeq(b, 1, Len(b) - 2))
           /\ b[Len(b) - 1] = "."
           /\ b[Len(b)] \in {"0", "5"}

NumeralValue(s) ==
    LET neg == Head(s) = "-"
        b   == IF neg THEN Tail(s) ELSE s
        abs == IF AllDigits(b) THEN 2 * NatOf(b)
               ELSE 2 * NatOf(SubSeq(b, 1, Len(b) - 2))
                    + (IF b[Len(b)] = "5" THEN 1 ELSE 0)
    IN  IF neg THEN 0 - abs ELSE abs

\* pd.to_numeric(..., errors="coerce") on one cell
to_numeric(c) ==
    IF c.t = "str"
    THEN (IF IsNumeral(c.s) THEN Num(NumeralValue(c.s)) ELSE NaN)
    ELSE c

\* the dtype to_numeric leaves: int64 when every value is a whole number,
\* float64 as soon as one is missing or fractional
numeric_dtype(cells) ==
    IF \A c \in cells : c.t = "num" /\ c.n % 2 = 0 THEN "int64" ELSE "float64"

\* Series.astype(str) on one cell: NaN becomes the text "nan"
FloatStr(n) ==
    LET a == IF n < 0 THEN 0 - n ELSE n
    IN  (IF n < 0 THEN <<"-">> ELSE <<>>) \o NatStr(a \div 2)
        \o <<".", IF a % 2 = 1 THEN "5" ELSE "0">>

IntStr(n) ==
    LET a == IF n < 0 THEN 0 - n ELSE n
    IN  (IF n < 0 THEN <<"-">> ELSE <<>>) \o NatStr(a \div 2)

astype_str(c) ==
    CASE c.t = "nan" -> Str(<<"n", "a", "n">>)
      [] c.t = "str" -> c
      [] c.t = "num" -> Str(FloatStr(c.n))

str_strip(c) == IF c.t = "str" THEN Str(strip(c.s)) ELSE c

\* df["model"] = df["model"].astype(str).str.strip()
clean_model(df) ==
    [df EXCEPT !.data =
        [lab \in DOMAIN df.data |->
            [j \in 1..Len(df.columns) |->
                IF df.columns[j] = c_model
                THEN str_strip(astype_str(df.data[lab][j]))
                ELSE df.data[lab][j]]]]

numeric_cols == {c_price, c_year, c_mileage, c_tax, c_mpg, c_engineSize}

required_cols == {c_price, c_year}

\* df[col] = pd.to_numeric(df[col], errors="coerce") for each numeric column
\* that exists, with the dtype each column ends with
coerce_numeric(df) ==
    LET data == [lab \in DOMAIN df.data |->
                    [j \in 1..Len(df.columns) |->
                        IF df.columns[j] \in numeric_cols
                        THEN to_numeric(df.data[lab][j])
                        ELSE df.data[lab][j]]]
    IN  [df EXCEPT !.data = data,
                   !.dtypes =
                       [j \in 1..Len(df.columns) |->
                           IF df.columns[j] \in numeric_cols
                           THEN numeric_dtype({data[lab][j] : lab \in DOMAIN data})
                           ELSE "object"]]

\* (mutant) dropna(subset=["price"])
dropna_price_only(df) ==
    LET ok(lab) ==
            \A j \in 1..Len(df.columns) :
                df.columns[j] = c_price => df.data[lab][j].t # "nan"
    IN  Take(df, SelectSeq(df.index, ok))

\* df.dropna(subset=...): the rows with no NaN in the required columns that
\* exist
dropna(df) ==
    LET ok(lab) ==
            \A j \in 1..Len(df.columns) :
                df.columns[j] \in required_cols => df.data[lab][j].t # "nan"
    IN  Take(df, SelectSeq(df.index, ok))

strip_columns(df) ==
    [df EXCEPT !.columns = [j \in 1..Len(df.columns) |-> strip(df.columns[j])]]

load_data(file) == dropna(coerce_numeric(clean_model(strip_columns(read_csv(file)))))

\* --------------------------------------------------------------- main: widgets

\* int(x) of Python for x = n/2: truncation toward zero
py_int(n) == IF n >= 0 THEN n \div 2 ELSE 0 - ((0 - n) \div 2)

\* the cells of a column, by label
Column(df, name) == {Cell(df, lab, name) : lab \in Labels(df)}

\* sorted(df[col].dropna().unique()) if col in df.columns else []: the
\* options a multiselect offers (their order plays no part in the filter)
options(df, name) ==
    IF HasCol(df, name)
    THEN {c.s : c \in {x \in Column(df, name) : x.t = "str"}}
    ELSE {}

Values(df, name) == {c.n : c \in {x \in Column(df, name) : x.t = "num"}}

\* Series.min() and Series.max() of a column with a number in it
col_min(df, name) == CHOOSE v \in Values(df, name) : \A w \in Values(df, name) : v <= w

col_max(df, name) == CHOOSE v \in Values(df, name) : \A w \in Values(df, name) : v >= w

\* int(df[col].min()) if col in df.columns else 0, and the same of max
bound_min(df, name) == IF HasCol(df, name) THEN py_int(col_min(df, name)) ELSE 0

bound_max(df, name) == IF HasCol(df, name) THEN py_int(col_max(df, name)) ELSE 0

\* min() of a column without a number is NaN, and int(NaN) raises ValueError
bounds_raise(df) ==
    \/ HasCol(df, c_year) /\ Values(df, c_year) = {}
    \/ HasCol(df, c_price) /\ Values(df, c_price) = {}

\* the widgets' default values: every option, the full range
defaults(df) ==
    [models |-> options(df, c_model),
     year   |-> <<bound_min(df, c_year), bound_max(df, c_year)>>,
     price  |-> <<bound_min(df, c_price), bound_max(df, c_price)>>,
     trans  |-> options(df, c_transmission),
     fuel   |-> options(df, c_fuelType)]

\* a range slider returns a pair lo <= hi of its positions
ranges(stops) == {p \in stops \X stops : p[1] <= p[2]}

\* The Year slider's positions are the integers of its range.  The Price
\* slider's are too; of them the model moves to the whole parts of the
\* dataset's prices, its two ends among them.
year_stops(df) == bound_min(df, c_year)..bound_max(df, c_year)

price_stops(df) ==
    {bound_min(df, c_price), bound_max(df, c_price)} \cup
    (IF HasCol(df, c_price) THEN {py_int(v) : v \in Values(df, c_price)} ELSE {})

\* a multiselect after one click: an option added, an option removed, or
\* all of them cleared
clicks(opts, chosen) ==
    {chosen, {}} \cup {chosen \cup {o} : o \in opts} \cup {chosen \ {o} : o \in opts}

\* what one interaction can make of the widgets' values: one widget changes
\* (or none), and the script runs again
interactions(df, s) ==
    {[s EXCEPT !.models = m] : m \in clicks(options(df, c_model), s.models)} \cup
    {[s EXCEPT !.year = r] : r \in ranges(year_stops(df))} \cup
    {[s EXCEPT !.price = r] : r \in ranges(price_stops(df))} \cup
    {[s EXCEPT !.trans = m] : m \in clicks(options(df, c_transmission), s.trans)} \cup
    {[s EXCEPT !.fuel = m] : m \in clicks(options(df, c_fuelType), s.fuel)}

\* --------------------------------------------------------------- main: filters

\* df_filtered[df_filtered[col].isin(chosen)]: NaN is in no list of options
isin(df, idx, name, chosen) ==
    LET ok(lab) == Cell(df, lab, name).t = "str" /\ Cell(df, lab, name).s \in chosen
    IN  SelectSeq(idx, ok)

\* (mutant) between(lo, hi, inclusive="neither")
between_exclusive(df, idx, name, lo, hi) ==
    LET ok(lab) ==
            /\ Cell(df, lab, name).t = "num"
            /\ 2 * lo < Cell(df, lab, name).n
            /\ Cell(df, lab, name).n < 2 * hi
    IN  SelectSeq(idx, ok)

\* df_filtered[df_filtered[col].between(lo, hi)]: both ends included
between(df, idx, name, lo, hi) ==
    LET ok(lab) ==
            /\ Cell(df, lab, name).t = "num"
            /\ 2 * lo <= Cell(df, lab, name).n
            /\ Cell(df, lab, name).n <= 2 * hi
    IN  SelectSeq(idx, ok)

\* (mutant) the pass filters what the pass before it left
df_copy_of_view(df) == IF started THEN df_filtered.index ELSE df.index

\* df_filtered = df.copy()
df_copy(df) == df.index

filter_model(df, idx, s) ==
    IF s.models # {} THEN isin(df, idx, c_model, s.models) ELSE idx

filter_year(df, idx, s) ==
    IF HasCol(df, c_year) THEN between(df, idx, c_year, s.year[1], s.year[2]) ELSE idx

RECURSIVE Reverse(_)
Reverse(q) == IF q = <<>> THEN <<>> ELSE Reverse(Tail(q)) \o <<Head(q)>>

\* (mutant) the price filter hands its rows back last row first
filter_price_reversed(df, idx, s) ==
    IF HasCol(df, c_price)
    THEN Reverse(between(df, idx, c_price, s.price[1], s.price[2]))
    ELSE idx

filter_price(df, idx, s) ==
    IF HasCol(df, c_price) THEN between(df, idx, c_price, s.price[1], s.price[2]) ELSE idx

\* (mutant) the transmission filter is left out
filter_trans_skipped(df, idx, s) == idx

filter_trans(df, idx, s) ==
    IF s.trans # {} THEN isin(df, idx, c_transmission, s.trans) ELSE idx

filter_fuel(df, idx, s) ==
    IF s.fuel # {} THEN isin(df, idx, c_fuelType, s.fuel) ELSE idx

\* lines 44-55: the labels of the rows that survive the five filters
apply_filters(df, s) ==
    filter_fuel(df,
        filter_trans(df,
            filter_price(df,
                filter_year(df,
                    filter_model(df, df_copy(df), s), s), s), s), s)

\* --------------------------------------------------------------- main: metrics

RECURSIVE col_sum(_, _, _)
col_sum(df, idx, name) ==
    IF idx = <<>> THEN 0
    ELSE (IF Cell(df, Head(idx), name).t = "num" THEN Cell(df, Head(idx), name).n ELSE 0)
         + col_sum(df, Tail(idx), name)

\* the number of values Series.mean() averages: it skips NaN
col_count(df, idx, name) ==
    LET ok(lab) == Cell(df, lab, name).t = "num"
    IN  Len(SelectSeq(idx, ok))

\* int(a / b) for b > 0: truncation toward zero
trunc_div(a, b) == IF a >= 0 THEN a \div b ELSE 0 - ((0 - a) \div b)

\* (mutant) int(view[col].sum())
int_sum(view, name) == trunc_div(col_sum(view, view.index, name), 2)

\* int(view[col].mean()): the sum is in half units.  (The mean of no number
\* is NaN; mean_is_nan says so.)
int_mean(view, name) ==
    trunc_div(col_sum(view, view.index, name), 2 * col_count(view, view.index, name))

mean_is_nan(view, name) == col_count(view, view.index, name) = 0

NotShown == [ok |-> FALSE, v |-> 0]

Shown(v) == [ok |-> TRUE, v |-> v]

NoCounts == [ok |-> FALSE, v |-> <<>>]

NoError == [kind |-> "none", line |-> 0]

Raised(kind, line) == [kind |-> kind, line |-> line]

\* df_filtered["model"].value_counts(): each model of the view with the number
\* of its rows (the order of the groups is value_counts' own)
value_counts(view) ==
    [m \in options(view, c_model) |->
        Cardinality({lab \in Labels(view) : Cell(view, lab, c_model).s = m})]

\* --------------------------------------------------------------- main: export

format_cell(c, dtype) ==
    CASE c.t = "nan" -> <<>>
      [] c.t = "str" -> c.s
      [] c.t = "num" -> IF dtype = "int64" THEN IntStr(c.n) ELSE FloatStr(c.n)

\* df_filtered.to_csv(index=False): the header, then one record per row; the
\* csv writer quotes what needs quoting, so a field is its text
to_csv(view) ==
    [header |-> view.columns,
     rows   |-> [k \in 1..Len(view.index) |->
                    [j \in 1..Len(view.columns) |->
                        format_cell(view.data[view.index[k]][j], view.dtypes[j])]]]

NoFrame == [columns |-> <<>>, dtypes |-> <<>>, index |-> <<>>, data |-> <<>>]

NoFile == [header |-> <<>>, rows |-> <<>>]

NoSelection == [models |-> {}, year |-> <<0, 0>>, price |-> <<0, 0>>,
                trans |-> {}, fuel |-> {}]

NothingShown ==
    [listings |-> NotShown, avg_price |-> NotShown, avg_mileage |-> NotShown,
     counts |-> NoCounts]

\* ------------------------------------------------------------- main: one pass

\* lines 57-103 for the dataset df and its filtered view: what the page shows,
\* the export, and the exception that ends the pass early.  (The charts of
\* lines 67-96 are plotly's and are not modelled.)
render(df, view) ==
    LET empty == view.index = <<>>
        listings == Shown(Len(view.index))
        key62 == ~empty /\ ~HasCol(view, c_price)
        nan62 == ~empty /\ ~key62 /\ mean_is_nan(view, c_price)
        price == Shown(IF empty THEN 0 ELSE int_mean(view, c_price))
        nan65 == HasCol(df, c_mileage) /\ ~empty /\ mean_is_nan(view, c_mileage)
        mileage == IF HasCol(df, c_mileage)
                   THEN Shown(IF empty THEN 0 ELSE int_mean(view, c_mileage))
                   ELSE NotShown
        key88 == ~HasCol(view, c_model)
        base == [df_filtered |-> view, csv |-> NoFile, err |-> NoError,
                 shown |-> [NothingShown EXCEPT !.listings = listings]]
    IN  IF key62 THEN [base EXCEPT !.err = Raised("KeyError", 62)]
        ELSE IF nan62 THEN [base EXCEPT !.err = Raised("ValueError", 62)]
        ELSE IF nan65
        THEN [base EXCEPT !.err = Raised("ValueError", 65),
                          !.shown.avg_price = price]
        ELSE IF key88
        THEN [base EXCEPT !.err = Raised("KeyError", 88),
                          !.shown.avg_price = price,
                          !.shown.avg_mileage = mileage]
        ELSE [base EXCEPT !.csv = to_csv(view),
                          !.shown.avg_price = price,
                          !.shown.avg_mileage = mileage,
                          !.shown.counts = [ok |-> TRUE, v |-> value_counts(view)]]

\* ------------------------------------------------------------ the input files
\* The files the check reads: a header and up to MaxRows of these records, in
\* this order.  Each record gives its raw text for every column; a file holds
\* the fields of the columns its header names.

catalog ==
    <<
      (c_model :> <<"X", "5">>)
        @@ (c_year :> <<"2", "0", "1", "8">>)
        @@ (c_price :> <<"2", "0", "0", "0", "0">>)
        @@ (c_mileage :> <<"5", "0", "0", "0">>)
        @@ (c_transmission :> <<"M">>)
        @@ (c_fuelType :> <<"P">>),
      (c_model :> <<"3", "2", "0", "i">>)
        @@ (c_year :> <<"2", "0", "2", "0">>)
        @@ (c_price :> <<"1", "5", "0", "0", "0">>)
        @@ (c_mileage :> <<>>)
        @@ (c_transmission :> <<"A">>)
        @@ (c_fuelType :> <<"D">>),
      (c_model :> <<" ">>)
        @@ (c_year :> <<"2", "0", "1", "9">>)
        @@ (c_price :> <<"-", "7">>)
        @@ (c_mileage :> <<"a", "b", "c">>)
        @@ (c_transmission :> <<>>)
        @@ (c_fuelType :> <<"P">>),
      (c_model :> <<" ", "N", "A">>)
        @@ (c_year :> <<"2", "0", "2", "0">>)
        @@ (c_price :> <<"1", "7", "5", "0", "0", ".", "5">>)
        @@ (c_mileage :> <<"7", "0", "0", "0">>)
        @@ (c_transmission :> <<"A">>)
        @@ (c_fuelType :> <<>>),
      (c_model :> <<"N", "A">>)
        @@ (c_year :> <<"x">>)
        @@ (c_price :> <<"1", "5", "0", "0", "0">>)
        @@ (c_mileage :> <<"7", "0", "0", "0">>)
        @@ (c_transmission :> <<"A">>)
        @@ (c_fuelType :> <<"D">>),
      (c_model :> <<"X", "5">>)
        @@ (c_year :> <<"2", "0", "1", "8">>)
        @@ (c_price :> <<"N", "/", "A">>)
        @@ (c_mileage :> <<>>)
        @@ (c_transmission :> <<"M">>)
        @@ (c_fuelType :> <<"P">>)
    >>

headers ==
    {
      <<<<"m", "o", "d", "e", "l">>,
        <<"y", "e", "a", "r">>,
        <<"p", "r", "i", "c", "e">>,
        <<"m", "i", "l", "e", "a", "g", "e">>,
        <<"t", "r", "a", "n", "s", "m", "i", "s", "s", "i", "o", "n">>,
        <<"f", "u", "e", "l", "T", "y", "p", "e">>>>,
      <<<<" ", "m", "o", "d", "e", "l">>,
        <<"y", "e", "a", "r", " ">>,
        <<" ", "p", "r", "i", "c", "e", " ">>>>,
      <<<<"y", "e", "a", "r">>,
        <<"p", "r", "i", "c", "e">>,
        <<"m", "i", "l", "e", "a", "g", "e">>,
        <<"f", "u", "e", "l", "T", "y", "p", "e">>>>,
      <<<<"m", "o", "d", "e", "l">>,
        <<"p", "r", "i", "c", "e">>>>,
      <<<<"y", "e", "a", "r">>,
        <<"m", "i", "l", "e", "a", "g", "e">>>>
    }

picks ==
    {p \in UNION {[1..n -> 1..Len(catalog)] : n \in 0..MaxRows} :
        \A k \in 1..(Len(p) - 1) : p[k] < p[k + 1]}

file_of(h, p) ==
    [header |-> h,
     rows   |-> [k \in 1..Len(p) |-> [j \in 1..Len(h) |-> catalog[p[k]][strip(h[j])]]]]

files == {file_of(h, p) : h \in headers, p \in picks}

\* ---------------------------------------------------------------------- actions

Init ==
    /\ source \in files
    /\ cache = [loaded |-> FALSE, df |-> NoFrame]
    /\ started = FALSE
    /\ sel = NoSelection
    /\ df_filtered = NoFrame
    /\ shown = NothingShown
    /\ csv = NoFile
    /\ reloaded = [done |-> FALSE, df |-> NoFrame]
    /\ err = NoError

\* @st.cache_data: load_data() runs once; later calls get the stored result
cached_load_data(c, file) == IF c.loaded THEN c.df ELSE load_data(file)

\* One run of main(): the first with the widgets' defaults, every later one
\* after an interaction with one widget.  (\E x \in {e} names the value of e.)
main ==
    \E df \in {cached_load_data(cache, source)} :
        /\ cache' = [loaded |-> TRUE, df |-> df]
        /\ source' = source
        /\ reloaded' = [done |-> FALSE, df |-> NoFrame]
        /\ IF bounds_raise(df)
           THEN /\ err' = Raised("ValueError", IF HasCol(df, c_year) THEN 30 ELSE 34)
                /\ df_filtered' = NoFrame
                /\ shown' = NothingShown
                /\ csv' = NoFile
                /\ UNCHANGED <<started, sel>>
           ELSE \E s \in (IF started THEN interactions(df, sel) ELSE {defaults(df)}) :
                \E view \in {Take(df, apply_filters(df, s))} :
                \E r \in {render(df, view)} :
                    /\ started' = TRUE
                    /\ sel' = s
                    /\ df_filtered' = r.df_filtered
                    /\ shown' = r.shown
                    /\ csv' = r.csv
                    /\ err' = r.err

\* The downloaded bmw_filtered.csv is read back with load_data(path).
load_export ==
    /\ started /\ err = NoError /\ ~reloaded.done
    /\ reloaded' = [done |-> TRUE, df |-> load_data(csv)]
    /\ UNCHANGED <<source, cache, started, sel, df_filtered, shown, csv, err>>

Next == main \/ load_export

Spec == Init /\ [][Next]_vars

\* ----------------------------------------------------------------------- claims
\* What the claims say, stated on the program's state and not with the
\* operators of main.  D is the loaded dataset, s a selection, lab a row.

InSet(D, lab, name, chosen) ==
    chosen = {} \/ (Cell(D, lab, name).t = "str" /\ Cell(D, lab, name).s \in chosen)

InRange(D, lab, name, r) ==
    ~HasCol(D, name)
    \/ (Cell(D, lab, name).t = "num"
        /\ 2 * r[1] <= Cell(D, lab, name).n /\ Cell(D, lab, name).n <= 2 * r[2])

Satisfies(D, s, lab) ==
    /\ InSet(D, lab, c_model, s.models)
    /\ InRange(D, lab, c_year, s.year)
    /\ InRange(D, lab, c_price, s.price)
    /\ InSet(D, lab, c_transmission, s.trans)
    /\ InSet(D, lab, c_fuelType, s.fuel)

\* the view holds exactly the rows of D that satisfy s, each as it is in D
ViewIs(D, s, view) ==
    /\ Labels(view) = {lab \in Labels(D) : Satisfies(D, s, lab)}
    /\ \A lab \in Labels(view) : view.data[lab] = D.data[lab]

X5 == <<"X", "5">>

\* the example's two rows under the header " model,year , price "
ExampleFile == file_of(<<<<" ">> \o c_model, c_year \o <<" ">>, <<" ">> \o c_price \o <<" ">>>>, <<1, 2>>)

\* the example's selection as the widgets hold it: the Price slider's range
\* is 15000..20000, the part of [0, 100000] it offers
ExampleSelection ==
    [models |-> {X5}, year |-> <<2018, 2018>>, price |-> <<15000, 20000>>,
     trans |-> {}, fuel |-> {}]

\* C1: once a pass has filtered, a row of the loaded dataset is in the view if
\* and only if it satisfies every active predicate (model in the chosen models
\* when some are chosen, year in the year range when the column exists, price
\* in the price range when the column exists, transmission and fuelType in
\* the chosen sets when some are chosen); and for the two-row example with
\* models = {X5}, year = [2018, 2018] the view is the first row alone, the
\* row count 1 and the average price 20000.
C1_FilterIff ==
    started =>
        /\ ViewIs(cache.df, sel, df_filtered)
        /\ (source = ExampleFile /\ sel = ExampleSelection =>
                /\ df_filtered.index = <<0>>
                /\ Cell(df_filtered, 0, c_model) = Str(X5)
                /\ Cell(df_filtered, 0, c_year) = Num(2 * 2018)
                /\ Cell(df_filtered, 0, c_price) = Num(2 * 20000)
                /\ shown.listings = Shown(1)
                /\ shown.avg_price = Shown(20000))

C1_Witness ==
    /\ started /\ source = ExampleFile /\ sel = ExampleSelection
    /\ Len(cache.df.index) = 2 /\ Len(df_filtered.index) = 1

PosIn(D, lab) == CHOOSE i \in 1..Len(D.index) : D.index[i] = lab

\* C2: the view's rows are rows of the loaded dataset, none more often than
\* the dataset holds it, in the dataset's order, each with the dataset's
\* cells.
C2_Subset ==
    started =>
        /\ df_filtered.columns = cache.df.columns
        /\ \A k \in 1..Len(df_filtered.index) :
              /\ df_filtered.index[k] \in Labels(cache.df)
              /\ df_filtered.data[df_filtered.index[k]] = cache.df.data[df_filtered.index[k]]
        /\ \A k \in 1..(Len(df_filtered.index) - 1) :
              PosIn(cache.df, df_filtered.index[k]) < PosIn(cache.df, df_filtered.index[k + 1])
        /\ \A i, j \in 1..Len(cache.df.index) : cache.df.index[i] = cache.df.index[j] => i = j

C2_Witness ==
    /\ started
    /\ df_filtered.index = <<1>>
    /\ cache.df.index = <<0, 1>>

\* both sliders have a range to offer: the dataset has years and prices with
\* different whole parts
SlidersHaveRange(D) ==
    /\ HasCol(D, c_year) /\ bound_min(D, c_year) < bound_max(D, c_year)
    /\ HasCol(D, c_price) /\ bound_min(D, c_price) < bound_max(D, c_price)

FullSelection(D, s) ==
    /\ s.models = {} /\ s.trans = {} /\ s.fuel = {}
    /\ s.year = <<bound_min(D, c_year), bound_max(D, c_year)>>
    /\ s.price = <<bound_min(D, c_price), bound_max(D, c_price)>>

\* C3: after a pass that ran to its end with every set selection empty and
\* both sliders at the full bounds main offers, the view is the whole loaded
\* dataset (stated for the datasets whose sliders have a range to offer).
C3_Unrestricted ==
    started /\ err = NoError /\ SlidersHaveRange(cache.df)
            /\ FullSelection(cache.df, sel)
        => df_filtered.index = cache.df.index

OthersThan(D, s, lab, name) ==
    /\ InSet(D, lab, c_model, s.models)
    /\ name = c_year \/ InRange(D, lab, c_year, s.year)
    /\ name = c_price \/ InRange(D, lab, c_price, s.price)
    /\ InSet(D, lab, c_transmission, s.trans)
    /\ InSet(D, lab, c_fuelType, s.fuel)

Inclusive(D, s, view, name, r) ==
    HasCol(D, name) =>
        \A lab \in Labels(D) :
            /\ Cell(D, lab, name).n \in {2 * r[1], 2 * r[2]} /\ OthersThan(D, s, lab, name)
                  => lab \in Labels(view)
            /\ Cell(D, lab, name).n < 2 * r[1] \/ Cell(D, lab, name).n > 2 * r[2]
                  => lab \notin Labels(view)

\* C4: the year filter and the price filter keep a row whose value equals the
\* lower or the upper end of the selected range (it is in the view unless
\* another filter removes it) and remove a row whose value is below the lower
\* or above the upper end.
C4_Inclusive ==
    started =>
        /\ Inclusive(cache.df, sel, df_filtered, c_year, sel.year)
        /\ Inclusive(cache.df, sel, df_filtered, c_price, sel.price)

C4_Witness ==
    /\ started /\ HasCol(cache.df, c_year) /\ HasCol(cache.df, c_price)
    /\ \E a, b \in Labels(cache.df) :
          /\ a \in Labels(df_filtered)
          /\ Cell(cache.df, a, c_year).n = 2 * sel.year[2]
          /\ Cell(cache.df, a, c_price).n = 2 * sel.price[1]
          /\ b \notin Labels(df_filtered)
          /\ Cell(cache.df, b, c_price).n > 2 * sel.price[2]
          /\ InRange(cache.df, b, c_year, sel.year)

\* a raw field the claim calls numeric: digits with a sign or a point
ClaimNumeric(raw) ==
    /\ raw # <<>>
    /\ \A i \in 1..Len(raw) : IsDigit(raw[i]) \/ raw[i] \in {"-", "."}
    /\ \E i \in 1..Len(raw) : IsDigit(raw[i])

RawField(k, name) == source.rows[k][ColPos(cache.df, name)]

\* C5: of a file with a price and a year column, load_data keeps exactly the
\* rows whose price and year fields are both numeric, every kept row has a
\* number for price and for year, and a mileage (tax, mpg, engineSize) field
\* that is not numeric is missing in the row, which is kept all the same.
C5_Loaded ==
    cache.loaded /\ HasCol(cache.df, c_price) /\ HasCol(cache.df, c_year) =>
        /\ \A k \in 1..Len(source.rows) :
              (k - 1 \in Labels(cache.df))
                  <=> (ClaimNumeric(RawField(k, c_price)) /\ ClaimNumeric(RawField(k, c_year)))
        /\ \A lab \in Labels(cache.df) :
              /\ Cell(cache.df, lab, c_price).t = "num"
              /\ Cell(cache.df, lab, c_year).t = "num"
              /\ \A name \in numeric_cols \ required_cols :
                    HasCol(cache.df, name) /\ ~ClaimNumeric(RawField(lab + 1, name))
                        => Cell(cache.df, lab, name) = NaN

C5_Witness ==
    /\ cache.loaded /\ HasCol(cache.df, c_price) /\ HasCol(cache.df, c_year)
    /\ HasCol(cache.df, c_mileage)
    /\ \E k \in 1..Len(source.rows) :
          k - 1 \notin Labels(cache.df) /\ RawField(k, c_price) = <<"N", "/", "A">>
    /\ \E lab \in Labels(cache.df) :
          RawField(lab + 1, c_mileage) = <<"a", "b", "c">> /\ Cell(cache.df, lab, c_mileage) = NaN

RECURSIVE SumOf(_, _, _)
SumOf(D, labs, name) ==
    IF labs = {} THEN 0
    ELSE LET lab == CHOOSE x \in labs : TRUE
         IN  Cell(D, lab, name).n + SumOf(D, labs \ {lab}, name)

\* m is x truncated to an integer, for x = a / b with b > 0
IsTruncated(m, a, b) ==
    IF a >= 0 THEN m * b <= a /\ a < (m + 1) * b
    ELSE m * b >= a /\ a > (m - 1) * b

\* C6: with an empty view the pass shows the mean price 0 and line 62 raises
\* nothing; with a view that has rows (of a dataset with a price column) it
\* shows the arithmetic mean of the view's prices truncated to an integer.
C6_MeanPrice ==
    started =>
        /\ df_filtered.index = <<>> => shown.avg_price = Shown(0) /\ err.line # 62
        /\ df_filtered.index # <<>> /\ HasCol(cache.df, c_price) =>
              /\ shown.avg_price.ok
              /\ err.line # 62
              /\ IsTruncated(shown.avg_price.v,
                             SumOf(df_filtered, Labels(df_filtered), c_price),
                             2 * Cardinality(Labels(df_filtered)))

\* an empty view of a dataset with rows, and the mean 0 shown for it
C6_Witness ==
    /\ started /\ cache.df.index # <<>> /\ HasCol(cache.df, c_price)
    /\ df_filtered.index = <<>> /\ shown.avg_price = Shown(0)

\* a view of two rows whose mean price is no whole number
C6_WitnessTruncated ==
    /\ started /\ Len(df_filtered.index) = 2 /\ HasCol(cache.df, c_price)
    /\ SumOf(df_filtered, Labels(df_filtered), c_price) % 4 # 0
    /\ shown.avg_price.ok

\* C7: for a dataset with its price and year columns (and sliders with a range
\* to offer), whatever optional columns it lacks and whatever optional values
\* are missing, a pass that reaches the filters ends without an exception.
C7_Total == started /\ SlidersHaveRange(cache.df) => err = NoError

\* C7 for the datasets that have a model column: the mean of the view's
\* mileage
C7_TotalWithModel ==
    started /\ SlidersHaveRange(cache.df) /\ HasCol(cache.df, c_model) => err = NoError

\* C7 for the datasets in which no mileage is missing: the per-model counts
C7_TotalWithMileages ==
    started /\ SlidersHaveRange(cache.df)
            /\ (HasCol(cache.df, c_mileage) => NaN \notin Column(cache.df, c_mileage))
        => err = NoError

\* C8: the export of a view, read back with load_data, has the view's columns
\* and the view's rows in the view's order, field for field (numbers by
\* value: 5000 and 5000.0 are the same field).
C8_RoundTrip ==
    reloaded.done /\ SlidersHaveRange(cache.df) =>
        /\ reloaded.df.columns = df_filtered.columns
        /\ Rows(reloaded.df) = Rows(df_filtered)

\* C9: a pass leaves the cached dataset as it found it, and the view it shows
\* is the cached dataset filtered by the selection it ran with, whatever the
\* passes before it selected.
C9_Step ==
    /\ cache.loaded => cache' = cache
    /\ started' => ViewIs(cache'.df, sel', df_filtered')

C9_Independent == [][C9_Step]_vars

\* a view that holds a row the selection before the last click had removed:
\* the state after a widening
C9_Witness ==
    /\ started /\ sel.models = {} /\ options(cache.df, c_model) # {}
    /\ Len(cache.df.index) = 2 /\ df_filtered.index = cache.df.index

WholeNumbers(D, name) == HasCol(D, name) => \A v \in Values(D, name) : v % 2 = 0

\* C10: a pass that ran to its end with the widgets' defaults (every option
\* chosen, both sliders at their full range) shows every row of the loaded dataset.  Stated for
\* the datasets whose prices and years are whole numbers, where the sliders'
\* bounds are the exact minimum and maximum.
C10_DefaultsShowAll ==
    started /\ err = NoError /\ sel = defaults(cache.df) /\ SlidersHaveRange(cache.df)
            /\ WholeNumbers(cache.df, c_price) /\ WholeNumbers(cache.df, c_year)
        => df_filtered.index = cache.df.index

====
